---- MODULE Spec2Model ----
(***************************************************************************)
(* A model of the MCP calculator server (calculator_server.py) and of the  *)
(* LLM agent that drives it (llm_agent.py).                                *)
(*                                                                         *)
(* The agent's turn (process_user_input) is an async call chain with two   *)
(* kinds of suspension points: the completion request to the LLM and the   *)
(* tools/execute RPC.  pc records the suspension point the turn is at,     *)
(* stack the enclosing _process_llm_response frames whose try block is     *)
(* active, ret the outcome of the last operation and trace the requests    *)
(* and outcomes of the operation in progress or last finished.             *)
(***************************************************************************)
EXTENDS Integers, Sequences, FiniteSets, TLC

VARIABLES server_tools, tools, messages, pc, stack, cur, ret, trace, turn, nreq,
          http_request, http_response, invoked, listings, prior, running,
          conns, sample, extracted

\* the server's side of one HTTP exchange: the body last received, the
\* response sent for it, the handlers it invoked, the tools/list results
\* sent so far in order, the kind of response of the exchange before, and whether
\* the service is still serving; and the connections of independent clients
srv_vars == <<http_request, http_response, invoked, listings, prior, running,
              conns>>

agent_vars == <<tools, messages, pc, stack, cur, ret, trace, turn, nreq>>

\* a text given to the extractor and what the extractor returned for it
ext_vars == <<sample, extracted>>

vars == <<server_tools, tools, messages, pc, stack, cur, ret, trace, turn, nreq,
          http_request, http_response, invoked, listings, prior, running,
          conns, sample, extracted>>

(* ------------------------------ bounds -------------------------------- *)

\* Completion requests issued in one session.
MaxReq == 4

\* Turns of process_user_input in one session.
MaxTurns == 2

\* tools/list requests served in one run of the server
MaxLists == 2

\* Segments (prose, blocks, objects) of a text given to the extractor.
MaxSegs == 3

(* ------------------------- python helpers ------------------------------ *)

\* dict.get(key, default)
Get(d, k, dflt) == IF k \in DOMAIN d THEN d[k] ELSE dflt

\* Python's None
None == [py |-> "None"]

Front(s) == SubSeq(s, 1, Len(s) - 1)

IsPrefix(s, t) == Len(s) <= Len(t) /\ SubSeq(t, 1, Len(s)) = s

\* An exception value / a normal value of a call that may raise.
Raised(e) == [ok |-> FALSE, error |-> e]

Returned(v) == [ok |-> TRUE, value |-> v]

(* -------------------------- calculator server -------------------------- *)

MCPTool(tool_id, name, description, handler_func) ==
    [id |-> tool_id, name |-> name, description |-> description,
     handler |-> handler_func]

to_dict(tool) ==
    [id |-> tool.id, name |-> tool.name, description |-> tool.description,
     parameters_schema |-> [type |-> "object", required |-> <<"a", "b">>],
     return_schema |-> [type |-> "number"]]

\* self.tools[tool_id] = MCPTool(...): an insertion-ordered dict, kept as the
\* sequence of its values; assigning an existing key replaces the value in place.
register_tool(reg, tool_id, name, description, handler) ==
    IF \E i \in 1..Len(reg) : reg[i].id = tool_id
    THEN [i \in 1..Len(reg) |->
            IF reg[i].id = tool_id
            THEN MCPTool(tool_id, name, description, handler) ELSE reg[i]]
    ELSE Append(reg, MCPTool(tool_id, name, description, handler))

\* MCPCalculatorServer.__init__
MCPCalculatorServer ==
    register_tool(
        register_tool(<<>>, "calculator:add", "add",
                      "Add two numbers together", "add"),
        "calculator:subtract", "subtract",
        "Subtract the second number from the first", "subtract")

\* str(e) of a ValueError: its message, with the value formatted into it
ValueError(msg, arg) == Raised([msg |-> msg, arg |-> arg])

\* mutant: the second operand is dropped
add_first(params) ==
    IF "a" \notin DOMAIN params \/ "b" \notin DOMAIN params
    THEN ValueError("Missing required parameters: 'a' and 'b'", "")
    ELSE Returned(params["a"])

add(params) ==
    IF "a" \notin DOMAIN params \/ "b" \notin DOMAIN params
    THEN ValueError("Missing required parameters: 'a' and 'b'", "")
    ELSE Returned(params["a"] + params["b"])

\* mutant: the operands are swapped
subtract_swapped(params) ==
    IF "a" \notin DOMAIN params \/ "b" \notin DOMAIN params
    THEN ValueError("Missing required parameters: 'a' and 'b'", "")
    ELSE Returned(params["b"] - params["a"])

\* mutant: an absent second operand counts as 0
subtract_default_b(params) ==
    IF "a" \notin DOMAIN params
    THEN ValueError("Missing required parameters: 'a' and 'b'", "")
    ELSE Returned(params["a"] - Get(params, "b", 0))

subtract(params) ==
    IF "a" \notin DOMAIN params \/ "b" \notin DOMAIN params
    THEN ValueError("Missing required parameters: 'a' and 'b'", "")
    ELSE Returned(params["a"] - params["b"])

\* tool.handler(tool_params): the bound method stored at registration
CallHandler(handler, params) ==
    IF handler = "add" THEN add(params) ELSE subtract(params)

\* mutant: the catalogue is listed latest registration first
handle_list_tools_reversed(reg) ==
    [i \in 1..Len(reg) |-> to_dict(reg[Len(reg) + 1 - i])]

handle_list_tools(reg) == [i \in 1..Len(reg) |-> to_dict(reg[i])]

RegistryIds(reg) == {reg[i].id : i \in 1..Len(reg)}

RegistryTool(reg, tool_id) ==
    reg[CHOOSE i \in 1..Len(reg) : reg[i].id = tool_id]

\* mutant: an empty tool_id is looked up like any other
handle_execute_tool_lookup_empty(reg, params) ==
    IF "tool_id" \notin DOMAIN params
    THEN ValueError("Missing required parameter: tool_id", "")
    ELSE IF params["tool_id"] \notin RegistryIds(reg)
    THEN ValueError("Unknown tool: ", params["tool_id"])
    ELSE CallHandler(RegistryTool(reg, params["tool_id"]).handler,
                     Get(params, "parameters", [x \in {} |-> 0]))

handle_execute_tool(reg, params) ==
    IF "tool_id" \notin DOMAIN params \/ params["tool_id"] = ""
    THEN ValueError("Missing required parameter: tool_id", "")
    ELSE IF params["tool_id"] \notin RegistryIds(reg)
    THEN ValueError("Unknown tool: ", params["tool_id"])
    ELSE CallHandler(RegistryTool(reg, params["tool_id"]).handler,
                     Get(params, "parameters", [x \in {} |-> 0]))

ErrorResponse(code, message, request_id) ==
    [jsonrpc |-> "2.0", error |-> [code |-> code, message |-> message],
     id |-> request_id]

ResultResponse(result, request_id) ==
    [jsonrpc |-> "2.0", result |-> result, id |-> request_id]

\* mutant: a method that is not known is answered with an empty result
dispatch_unknown_as_result(reg, method, params, request_id) ==
    IF method = "initialize"
    THEN ResultResponse([protocolVersion |-> "1.0"], request_id)
    ELSE IF method = "tools/list"
    THEN ResultResponse(handle_list_tools(reg), request_id)
    ELSE IF method = "tools/execute"
    THEN LET r == handle_execute_tool(reg, params) IN
         IF r.ok THEN ResultResponse(r.value, request_id)
         ELSE ErrorResponse(-32603,
                [msg |-> "Internal error: ", detail |-> r.error], request_id)
    ELSE ResultResponse(None, request_id)

\* mutant: a handler fault is reported as an invalid request
dispatch_fault_as_invalid(reg, method, params, request_id) ==
    IF method = "initialize"
    THEN ResultResponse([protocolVersion |-> "1.0"], request_id)
    ELSE IF method = "tools/list"
    THEN ResultResponse(handle_list_tools(reg), request_id)
    ELSE IF method = "tools/execute"
    THEN LET r == handle_execute_tool(reg, params) IN
         IF r.ok THEN ResultResponse(r.value, request_id)
         ELSE ErrorResponse(-32600, [msg |-> "Invalid Request"], request_id)
    ELSE ErrorResponse(-32601,
           [msg |-> "Method not found: ", method |-> method], request_id)

\* the try block of do_POST: the method is dispatched to the server instance
\* and whatever a handler raises becomes the error -32603
dispatch(reg, method, params, request_id) ==
    IF method = "initialize"
    THEN ResultResponse([protocolVersion |-> "1.0"], request_id)
    ELSE IF method = "tools/list"
    THEN ResultResponse(handle_list_tools(reg), request_id)
    ELSE IF method = "tools/execute"
    THEN LET r == handle_execute_tool(reg, params) IN
         IF r.ok THEN ResultResponse(r.value, request_id)
         ELSE ErrorResponse(-32603,
                [msg |-> "Internal error: ", detail |-> r.error], request_id)
    ELSE ErrorResponse(-32601,
           [msg |-> "Method not found: ", method |-> method], request_id)

\* mutant: the protocol marker is not looked at
do_POST_marker_unchecked(reg, request) ==
    LET request_id == Get(request, "id", None)
        params == Get(request, "params", [x \in {} |-> 0])
    IN  IF "method" \notin DOMAIN request \/ request["method"] = ""
        THEN ErrorResponse(-32600, [msg |-> "Invalid Request"], request_id)
        ELSE dispatch(reg, request["method"], params, request_id)

\* MCPRequestHandler.do_POST for a request body that parsed as a JSON object
do_POST(reg, request) ==
    LET request_id == Get(request, "id", None)
        params == Get(request, "params", [x \in {} |-> 0])
    IN  IF "jsonrpc" \notin DOMAIN request \/ request["jsonrpc"] # "2.0"
           \/ "method" \notin DOMAIN request \/ request["method"] = ""
        THEN ErrorResponse(-32600, [msg |-> "Invalid Request"], request_id)
        ELSE dispatch(reg, request["method"], params, request_id)

(* ------------------------------ texts ---------------------------------- *)

\* A text (a Python str) is a sequence of tokens: three backticks, the word
\* json, a newline, a run of prose (no backtick, brace or newline in it), or
\* the source text of one JSON value.
Ticks == [t |-> "ticks"]

JsonTag == [t |-> "json"]

NL == [t |-> "newline"]

Src(body) == [t |-> "src", body |-> body]

Prose(s) == <<[t |-> "prose", s |-> s]>>

\* ```json\n{...}\n```
JsonFence(body) == <<Ticks, JsonTag, NL, Src(body), NL, Ticks>>

\* ```\n{...}\n```
Fence(body) == <<Ticks, NL, Src(body), NL, Ticks>>

Inline(body) == <<Src(body)>>

RECURSIVE Concat(_)
Concat(segs) == IF segs = <<>> THEN <<>> ELSE Head(segs) \o Concat(Tail(segs))

Text(segs) == [toks |-> Concat(segs)]

\* Python values are encoded so that a key always holds one kind of TLA+
\* value: a value that is no str stands in a string position as one of
\* NonStrings, and a value that is no dict stands in a dict position as a
\* record with the one field "<list>".
NonStrings == {"<int 5>", "<null>"}

isinstance_str(v) == v \notin NonStrings

PyList(xs) == [x \in {"<list>"} |-> xs]

isinstance_dict(v) == "<list>" \notin DOMAIN v

\* JSON source text: the members of an object in the order they are written,
\* or an array; `syntax` tells whether json.loads accepts it.
Pair(k, v) == [k |-> k, v |-> v]

Object(pairs) == [syntax |-> "object", pairs |-> pairs]

Arr == [syntax |-> "array", pairs |-> <<>>]

\* an object written with a trailing comma
Invalid(pairs) == [syntax |-> "invalid", pairs |-> pairs]

Call(tool, parameters) == [tool |-> tool, parameters |-> parameters]

\* the call written as the system prompt shows it: tool, then parameters
Json(data) ==
    Object(<<Pair("tool", data.tool), Pair("parameters", data.parameters)>>)

BadJson(data) ==
    Invalid(<<Pair("tool", data.tool), Pair("parameters", data.parameters)>>)

\* mutant: only the first member is read
dict_first_member(pairs) ==
    [key \in {pairs[i].k : i \in 1..Len(pairs) \cap {1}} |-> pairs[1].v]

\* the dict json.loads builds from the members: the last member of a key wins
dict(pairs) ==
    [key \in {pairs[i].k : i \in 1..Len(pairs)} |->
        pairs[CHOOSE i \in 1..Len(pairs) :
                /\ pairs[i].k = key
                /\ \A j \in (i + 1)..Len(pairs) : pairs[j].k # key].v]

\* json.loads of the source text of one value
json_loads(body) ==
    IF body.syntax = "invalid" THEN Raised("JSONDecodeError")
    ELSE IF body.syntax = "array" THEN Returned(PyList(<<>>))
    ELSE Returned(dict(body.pairs))

\* json.loads of a substring: whitespace around one value is accepted,
\* anything else (nothing, prose, backticks, a second value) is not
loads(toks) ==
    LET v == SelectSeq(toks, LAMBDA x : x # NL)
    IN  IF Len(v) = 1 /\ v[1].t = "src" THEN json_loads(v[1].body)
        ELSE Raised("JSONDecodeError")

\* isinstance(data, dict) and "tool" in data and "parameters" in data
HasRequiredKeys(data) ==
    /\ isinstance_dict(data)
    /\ "tool" \in DOMAIN data
    /\ "parameters" \in DOMAIN data

\* mutant: the loop ends at the first candidate, valid or not
FirstValid_first_only(candidates) ==
    IF candidates = <<>> THEN <<>>
    ELSE LET r == loads(Head(candidates)) IN
         IF r.ok /\ HasRequiredKeys(r.value) THEN <<r.value>> ELSE <<>>

\* One strategy's loop: the first candidate, in reading order, that parses
\* and has both keys; <<>> when the loop ends without returning.
RECURSIVE FirstValid(_)
FirstValid(candidates) ==
    IF candidates = <<>> THEN <<>>
    ELSE LET r == loads(Head(candidates)) IN
         IF r.ok /\ HasRequiredKeys(r.value) THEN <<r.value>>
         ELSE FirstValid(Tail(candidates))

Drop(toks, n) == SubSeq(toks, n + 1, Len(toks))

\* re.findall(open + r"(.*?)\n```", text, re.DOTALL): from the leftmost
\* opener, the shortest run of text up to a newline followed by backticks;
\* the search goes on behind the match
RECURSIVE BodiesOf(_, _)
BodiesOf(toks, open) ==
    IF Len(toks) < Len(open) + 2 THEN <<>>
    ELSE IF SubSeq(toks, 1, Len(open)) = open
    THEN LET rest == Drop(toks, Len(open))
             ends == {k \in 1..(Len(rest) - 1) :
                        rest[k] = NL /\ rest[k + 1] = Ticks}
         IN  IF ends = {} THEN <<>>
             ELSE LET k == CHOOSE e \in ends : \A f \in ends : e <= f
                  IN  <<SubSeq(rest, 1, k - 1)>>
                        \o BodiesOf(Drop(rest, k + 1), open)
    ELSE BodiesOf(Tail(toks), open)

\* Method 3: the whole text
WholeText(toks) == <<toks>>

\* what the two patterns of Methods 4 and 5 see of a source text: an opening
\* brace inside a string of the parameters object, which the patterns count
\* like any other brace
StrayBrace(body) ==
    \E i \in 1..Len(body.pairs) :
        /\ body.pairs[i].k = "parameters"
        /\ isinstance_dict(body.pairs[i].v)
        /\ "text" \in DOMAIN body.pairs[i].v
        /\ body.pairs[i].v["text"] = "{"

\* json_pattern of Method 4: an object with a member "tool" : "..." followed,
\* at the same level, by a member "parameters" : {...}, braces balanced; an
\* unmatched "{" lets the pattern fail.
Balanced(toks) ==
    LET Matches(body) ==
            /\ body.syntax # "array"
            /\ ~StrayBrace(body)
            /\ \E i, j \in 1..Len(body.pairs) :
                  /\ i < j
                  /\ body.pairs[i].k = "tool"
                  /\ isinstance_str(body.pairs[i].v)
                  /\ body.pairs[j].k = "parameters"
                  /\ isinstance_dict(body.pairs[j].v)
        hits == SelectSeq(toks, LAMBDA x : x.t = "src" /\ Matches(x.body))
    IN  [i \in 1..Len(hits) |-> <<hits[i]>>]

\* simple_pattern of Method 5: exactly {"tool": "...", "parameters": {...}}
\* with no "}" inside the parameters and at least one character in them
Simple(toks) ==
    LET Matches(body) ==
            /\ body.syntax = "object"
            /\ Len(body.pairs) = 2
            /\ body.pairs[1].k = "tool"
            /\ isinstance_str(body.pairs[1].v)
            /\ body.pairs[2].k = "parameters"
            /\ isinstance_dict(body.pairs[2].v)
            /\ DOMAIN body.pairs[2].v # {}
        hits == SelectSeq(toks, LAMBDA x : x.t = "src" /\ Matches(x.body))
    IN  [i \in 1..Len(hits) |-> <<hits[i]>>]

\* mutant: the blocks without a tag are tried before the blocks tagged json
parse_tool_call_untagged_first(text) ==
    LET m1 == FirstValid(BodiesOf(text.toks, <<Ticks, JsonTag, NL>>))
        m2 == FirstValid(BodiesOf(text.toks, <<Ticks, NL>>))
        m3 == FirstValid(WholeText(text.toks))
        m4 == FirstValid(Balanced(text.toks))
        m5 == FirstValid(Simple(text.toks))
    IN  IF m2 # <<>> THEN m2
        ELSE IF m1 # <<>> THEN m1
        ELSE IF m3 # <<>> THEN m3
        ELSE IF m4 # <<>> THEN m4
        ELSE m5

\* LLMAgent._parse_tool_call: <<call>> or <<>> (None)
parse_tool_call(text) ==
    LET m1 == FirstValid(BodiesOf(text.toks, <<Ticks, JsonTag, NL>>))
        m2 == FirstValid(BodiesOf(text.toks, <<Ticks, NL>>))
        m3 == FirstValid(WholeText(text.toks))
        m4 == FirstValid(Balanced(text.toks))
        m5 == FirstValid(Simple(text.toks))
    IN  IF m1 # <<>> THEN m1
        ELSE IF m2 # <<>> THEN m2
        ELSE IF m3 # <<>> THEN m3
        ELSE IF m4 # <<>> THEN m4
        ELSE m5

(* ------------------------------ agent ---------------------------------- *)

Message(role, content) == [role |-> role, content |-> content]

\* _format_tools_for_llm: one description per discovered tool, in order
format_tools_for_llm(ts) ==
    [i \in 1..Len(ts) |->
        [name |-> ts[i].name, description |-> ts[i].description,
         required |-> ts[i].parameters_schema.required]]

system_prompt(ts) ==
    [fmt |-> "You are a helpful assistant with access to the following tools:",
     tools_description |-> format_tools_for_llm(ts)]

\* ', '.join(tool['name'] for tool in self.tools)
ToolNames(ts) == [i \in 1..Len(ts) |-> ts[i].name]

\* lines 222-227: the id of the first discovered tool with that name, or None
resolve(ts, tool_name) ==
    IF \E i \in 1..Len(ts) : ts[i].name = tool_name
    THEN LET i == CHOOSE j \in 1..Len(ts) :
                    /\ ts[j].name = tool_name
                    /\ \A k \in 1..(j - 1) : ts[k].name # tool_name
         IN  <<ts[i].id>>
    ELSE <<>>

\* mutant: the call is kept and the surrounding prose is dropped
assistant_message_stripped(llm_response) ==
    Message("assistant",
            [toks |-> SelectSeq(llm_response.toks, LAMBDA g : g.t # "prose")])

\* line 220, 253, 267, 272
assistant_message(llm_response) == Message("assistant", llm_response)

\* line 197
user_message(user_input) == Message("user", user_input)

\* line 237
\* mutant: the tool result is recorded under the role tool
tool_result_message_as_tool(result) ==
    Message("tool", [fmt |-> "Tool result: ", result |-> result])

tool_result_message(result) ==
    Message("system", [fmt |-> "Tool result: ", result |-> result])

\* lines 243-247
exec_error_message(tool_name, e) ==
    Message("system", [fmt |-> "Error executing tool '{tool_name}': Error executing tool: ",
                       tool_name |-> tool_name, error |-> e])

\* line 261
unknown_tool_message(tool_name, ts) ==
    Message("system", [fmt |-> "Unknown tool '{tool_name}'. Available tools: ",
                       tool_name |-> tool_name, available |-> ToolNames(ts)])

\* mutant: the request carries the history without the assistant messages
llm_payload_no_assistant(msgs) ==
    SelectSeq(msgs, LAMBDA m : m.role # "assistant")

\* lines 292-297: the messages a completion request carries
llm_payload(msgs) == msgs

\* _execute_tool: the tools/execute request
execute_request(tool_id, parameters) ==
    [jsonrpc |-> "2.0", method |-> "tools/execute",
     params |-> [tool_id |-> tool_id, parameters |-> parameters],
     id |-> [fmt |-> "exec-", tool_id |-> tool_id]]

\* _send_mcp_request, once the server has answered with `data`
mcp_result(data) ==
    IF "error" \in DOMAIN data
    THEN Raised([type |-> "Exception", msg |-> "MCP server error: ",
                 message |-> data.error.message, code |-> data.error.code])
    ELSE Returned(Get(data, "result", [x \in {} |-> 0]))

\* the exception _get_llm_response raises on a non-2xx status, a network
\* failure or a timeout (lines 331-351)
LLMError == [type |-> "Exception", msg |-> "Failed to communicate with LLM API: "]

\* the exception httpx raises in _send_mcp_request on a network failure or a
\* timeout (lines 368-370, re-raised at 380-382)
TransportError == [type |-> "httpx.RequestError", msg |-> "timeout"]

(* ------------------------- the environment ----------------------------- *)

UserInputs == {Text(<<Prose("What is 5+10-3?")>>)}

TextAdd ==
    Text(<<Prose("Step a: I'll add 5 and 10"),
           JsonFence(Json(Call("add", [a |-> 5, b |-> 10])))>>)

TextSubtract ==
    Text(<<Prose("Step b: Now I'll subtract 3 from the result 15"),
           JsonFence(Json(Call("subtract", [a |-> 15, b |-> 3])))>>)

TextMultiply ==
    Text(<<Prose("I'll multiply"),
           JsonFence(Json(Call("multiply", [a |-> 2, b |-> 3])))>>)

\* a call of a known tool that the server rejects (parameter b is missing)
TextAddMissing == Text(<<Inline(Json(Call("add", [a |-> 5])))>>)

TextFinal == Text(<<Prose("The result of 5+10-3 is 12.")>>)

\* What the completion endpoint may answer.
LLMTexts == {TextAdd, TextSubtract, TextMultiply, TextAddMissing, TextFinal}

(* ---------------------------- the state -------------------------------- *)

\* the clients that hold a connection to the server
Conns == {1, 2}

NoFrame == [tool_name |-> "", parameters |-> [x \in {} |-> 0], tool_id |-> ""]

Init ==
    /\ server_tools = MCPCalculatorServer
    /\ tools = <<>>
    /\ messages = <<>>
    /\ pc = "idle"
    /\ stack = <<>>
    /\ cur = NoFrame
    /\ ret = [op |-> "__init__", kind |-> "return"]
    /\ trace = <<>>
    /\ turn = 0
    /\ nreq = 0
    /\ http_request = [kind |-> "none"]
    /\ http_response = [kind |-> "none"]
    /\ invoked = <<>>
    /\ listings = <<>>
    /\ prior = [kind |-> "none", code |-> 0]
    /\ running = TRUE
    /\ conns = [c \in Conns |-> [st |-> "idle"]]
    /\ sample = Text(<<>>)
    /\ extracted = [done |-> FALSE, call |-> <<>>]

Completion(msgs) == [ev |-> "completion", payload |-> llm_payload(msgs)]

\* The turn returns `text` to the caller of process_user_input: every
\* enclosing frame returns the value of its `return await`.
Return(text, msgs, tr) ==
    /\ messages' = msgs
    /\ trace' = tr
    /\ pc' = "idle"
    /\ stack' = <<>>
    /\ cur' = NoFrame
    /\ ret' = [op |-> "process_user_input", kind |-> "return", text |-> text]
    /\ nreq' = nreq

\* mutant: after the error message the frame re-enters the full loop
ExceptHandler_retry(f, e, msgs, tr, stk) ==
    /\ nreq < MaxReq
    /\ messages' = Append(msgs, exec_error_message(f.tool_name, e))
    /\ trace' = tr \o <<[ev |-> "caught", tool_name |-> f.tool_name],
                        Completion(messages')>>
    /\ pc' = "llm"
    /\ stack' = stk
    /\ cur' = f
    /\ ret' = ret
    /\ nreq' = nreq + 1

\* mutant: the error message overwrites the last message of the history
ExceptHandler_overwrite(f, e, msgs, tr, stk) ==
    /\ nreq < MaxReq
    /\ messages' = Append(Front(msgs), exec_error_message(f.tool_name, e))
    /\ trace' = tr \o <<[ev |-> "caught", tool_name |-> f.tool_name],
                        Completion(messages')>>
    /\ pc' = "final"
    /\ stack' = stk
    /\ cur' = f
    /\ ret' = ret
    /\ nreq' = nreq + 1

\* lines 242-250: the except clause of frame f catches e, appends the error
\* message and requests the final completion; stk are the frames around f.
ExceptHandler(f, e, msgs, tr, stk) ==
    /\ nreq < MaxReq
    /\ messages' = Append(msgs, exec_error_message(f.tool_name, e))
    /\ trace' = tr \o <<[ev |-> "caught", tool_name |-> f.tool_name],
                        Completion(messages')>>
    /\ pc' = "final"
    /\ stack' = stk
    /\ cur' = f
    /\ ret' = ret
    /\ nreq' = nreq + 1

\* mutant: a fault that leaves process_user_input takes the turn's messages
\* out of the history
Raise_rollback(e, msgs, tr) ==
    IF stack = <<>>
    THEN /\ messages' = SubSeq(msgs, 1, Len(tr[1].payload) - 1)
         /\ trace' = tr
         /\ pc' = "idle"
         /\ stack' = <<>>
         /\ cur' = NoFrame
         /\ ret' = [op |-> "process_user_input", kind |-> "fault", error |-> e]
         /\ nreq' = nreq
    ELSE ExceptHandler(stack[Len(stack)], e, msgs, tr, Front(stack))

\* Exception e leaves the current frame (raised at line 210, 250 or 264).
\* The caller frame, if any, awaits this frame at line 240, inside its try
\* block (230-240), so its `except Exception` (242) catches e; without a
\* caller frame e leaves process_user_input.
Raise(e, msgs, tr) ==
    IF stack = <<>>
    THEN /\ messages' = msgs
         /\ trace' = tr
         /\ pc' = "idle"
         /\ stack' = <<>>
         /\ cur' = NoFrame
         /\ ret' = [op |-> "process_user_input", kind |-> "fault", error |-> e]
         /\ nreq' = nreq
    ELSE ExceptHandler(stack[Len(stack)], e, msgs, tr, Front(stack))

(* ----------------------------- actions --------------------------------- *)

list_request ==
    [jsonrpc |-> "2.0", method |-> "tools/list",
     params |-> [x \in {} |-> 0], id |-> [fmt |-> "list-1", tool_id |-> ""]]

\* discover_tools, the tools/list RPC answered by the server
DiscoverTools ==
    /\ pc = "idle"
    /\ LET r == mcp_result(do_POST(server_tools, list_request)) IN
       /\ r.ok
       /\ tools' = r.value
       /\ messages' = <<Message("system", system_prompt(tools'))>>
    /\ ret' = [op |-> "discover_tools", kind |-> "return"]
    /\ trace' = <<>>
    /\ UNCHANGED <<ext_vars, srv_vars, server_tools, pc, stack, cur, turn, nreq>>

\* discover_tools, the tools/list RPC not answered: the exception is re-raised
DiscoverToolsFault ==
    /\ pc = "idle"
    /\ ret' = [op |-> "discover_tools", kind |-> "fault", error |-> TransportError]
    /\ trace' = <<>>
    /\ UNCHANGED <<ext_vars, srv_vars, server_tools, tools, messages, pc, stack, cur, turn, nreq>>

\* process_user_input up to its first suspension point, the completion
\* request of line 210
ProcessUserInput(user_input) ==
    /\ pc = "idle"
    /\ turn < MaxTurns
    /\ nreq < MaxReq
    /\ messages' = Append(messages, user_message(user_input))
    /\ trace' = <<Completion(messages')>>
    /\ pc' = "llm"
    /\ stack' = <<>>
    /\ cur' = NoFrame
    /\ ret' = [op |-> "process_user_input", kind |-> "pending"]
    /\ turn' = turn + 1
    /\ nreq' = nreq + 1
    /\ UNCHANGED <<ext_vars, srv_vars, server_tools, tools>>

\* lines 210-273 from the completion's answer to the next suspension point
LLMRespond(llm_response) ==
    /\ pc = "llm"
    /\ LET tool_call == parse_tool_call(llm_response)
           tr == trace \o <<[ev |-> "response", text |-> llm_response],
                            [ev |-> "parse", text |-> llm_response,
                             found |-> tool_call # <<>>,
                             at |-> Len(messages)]>>
       IN  IF tool_call = <<>>
           THEN Return(llm_response,
                       Append(messages, assistant_message(llm_response)), tr)
           ELSE LET tool_name == tool_call[1]["tool"]
                    parameters == tool_call[1]["parameters"]
                    msgs == Append(messages, assistant_message(llm_response))
                    tool_id == resolve(tools, tool_name)
                IN  IF tool_id # <<>> /\ tool_id[1] # ""
                    THEN /\ messages' = msgs
                         /\ cur' = [tool_name |-> tool_name,
                                    parameters |-> parameters,
                                    tool_id |-> tool_id[1]]
                         /\ trace' = Append(tr,
                               [ev |-> "execute",
                                request |-> execute_request(tool_id[1], parameters)])
                         /\ pc' = "exec"
                         /\ UNCHANGED <<stack, ret, nreq>>
                    ELSE /\ nreq < MaxReq
                         /\ messages' =
                               Append(msgs, unknown_tool_message(tool_name, tools))
                         /\ trace' = tr \o <<[ev |-> "unknown",
                                             tool_name |-> tool_name],
                                            Completion(messages')>>
                         /\ pc' = "final"
                         /\ cur' = [tool_name |-> tool_name,
                                    parameters |-> parameters, tool_id |-> ""]
                         /\ nreq' = nreq + 1
                         /\ UNCHANGED <<stack, ret>>
    /\ UNCHANGED <<ext_vars, srv_vars, server_tools, tools, turn>>

\* the completion request of line 210 fails (non-2xx, network, timeout)
LLMFault ==
    /\ pc = "llm"
    /\ Raise(LLMError, messages, Append(trace, [ev |-> "llm_fault"]))
    /\ UNCHANGED <<ext_vars, srv_vars, server_tools, tools, turn>>

\* mutant: a successful execution takes the single-shot path too
ExecRespond_single ==
    /\ pc = "exec"
    /\ LET data == do_POST(server_tools,
                           execute_request(cur.tool_id, cur.parameters))
           r == mcp_result(data)
       IN  IF r.ok
           THEN /\ nreq < MaxReq
                /\ messages' = Append(messages, tool_result_message(r.value))
                /\ trace' = trace \o <<[ev |-> "exec_ok", result |-> r.value],
                                       Completion(messages')>>
                /\ pc' = "final"
                /\ nreq' = nreq + 1
                /\ UNCHANGED <<stack, cur, ret>>
           ELSE ExceptHandler(cur, r.error, messages,
                              Append(trace, [ev |-> "exec_error"]), stack)
    /\ UNCHANGED <<ext_vars, srv_vars, server_tools, tools, turn>>

\* lines 233-240 / 242-250: the server answers the tools/execute RPC
ExecRespond ==
    /\ pc = "exec"
    /\ LET data == do_POST(server_tools,
                           execute_request(cur.tool_id, cur.parameters))
           r == mcp_result(data)
       IN  IF r.ok
           THEN /\ nreq < MaxReq
                /\ messages' = Append(messages, tool_result_message(r.value))
                /\ trace' = trace \o <<[ev |-> "exec_ok", result |-> r.value],
                                       Completion(messages')>>
                /\ stack' = Append(stack, cur)
                /\ cur' = NoFrame
                /\ pc' = "llm"
                /\ nreq' = nreq + 1
                /\ ret' = ret
           ELSE ExceptHandler(cur, r.error, messages,
                              Append(trace, [ev |-> "exec_error"]), stack)
    /\ UNCHANGED <<ext_vars, srv_vars, server_tools, tools, turn>>

\* the tools/execute RPC gets no answer (network failure or timeout)
ExecFault ==
    /\ pc = "exec"
    /\ ExceptHandler(cur, TransportError, messages,
                     Append(trace, [ev |-> "exec_fault"]), stack)
    /\ UNCHANGED <<ext_vars, srv_vars, server_tools, tools, turn>>

\* lines 250-255 / 264-269: the final completion answers
FinalRespond(final_response) ==
    /\ pc = "final"
    /\ Return(final_response,
              Append(messages, assistant_message(final_response)),
              Append(trace, [ev |-> "response", text |-> final_response]))
    /\ UNCHANGED <<ext_vars, srv_vars, server_tools, tools, turn>>

\* the final completion request of line 250 or 264 fails
FinalFault ==
    /\ pc = "final"
    /\ Raise(LLMError, messages, Append(trace, [ev |-> "llm_fault"]))
    /\ UNCHANGED <<ext_vars, srv_vars, server_tools, tools, turn>>

Next ==
    \/ DiscoverTools
    \/ DiscoverToolsFault
    \/ \E u \in UserInputs : ProcessUserInput(u)
    \/ \E t \in LLMTexts : LLMRespond(t)
    \/ LLMFault
    \/ ExecRespond
    \/ ExecFault
    \/ \E t \in LLMTexts : FinalRespond(t)
    \/ FinalFault

Spec == Init /\ [][Next]_vars

(* ----------------------- the server's requests ------------------------- *)

\* the Service Core methods and tool handlers that do_POST invokes for a
\* request object, in order (lines 174-194, 125-136)
do_POST_calls(reg, req) ==
    IF "jsonrpc" \notin DOMAIN req \/ req["jsonrpc"] # "2.0"
       \/ "method" \notin DOMAIN req \/ req["method"] = ""
    THEN <<>>
    ELSE IF req["method"] = "initialize" THEN <<"handle_initialize">>
    ELSE IF req["method"] = "tools/list" THEN <<"handle_list_tools">>
    ELSE IF req["method"] = "tools/execute"
    THEN LET params == Get(req, "params", [x \in {} |-> 0]) IN
         IF "tool_id" \notin DOMAIN params \/ params["tool_id"] = ""
            \/ params["tool_id"] \notin RegistryIds(reg)
         THEN <<"handle_execute_tool">>
         ELSE <<"handle_execute_tool",
                RegistryTool(reg, params["tool_id"]).handler>>
    ELSE <<>>

\* BaseHTTPRequestHandler.send_error
send_error(code, message) ==
    [kind |-> "http_error", status |-> code, message |-> message]

\* send_json_response: HTTP 200 with the envelope as JSON
send_json_response(response_obj) ==
    [kind |-> "json", status |-> 200, body |-> response_obj]

\* mutant: the JSONDecodeError is not caught
http_POST_decode_escapes(reg, body) ==
    IF body.kind = "empty"
    THEN [response |-> send_error(400, "Missing request body"), invoked |-> <<>>]
    ELSE IF body.kind = "invalid" \/ ~body.object
    THEN [response |-> [kind |-> "none"], invoked |-> <<>>]
    ELSE [response |-> send_json_response(do_POST(reg, body.value)),
          invoked |-> do_POST_calls(reg, body.value)]

\* MCPRequestHandler.do_POST from the bytes received: the response sent and
\* the handlers invoked.  A body that is JSON but no object has no .get: the
\* AttributeError of line 162 is raised outside the try block and leaves
\* do_POST, so that no response is written.
http_POST(reg, body) ==
    IF body.kind = "empty"
    THEN [response |-> send_error(400, "Missing request body"), invoked |-> <<>>]
    ELSE IF body.kind = "invalid"
    THEN [response |-> send_error(400, "Invalid JSON in request body"),
          invoked |-> <<>>]
    ELSE IF ~body.object
    THEN [response |-> [kind |-> "none"], invoked |-> <<>>]
    ELSE [response |-> send_json_response(do_POST(reg, body.value)),
          invoked |-> do_POST_calls(reg, body.value)]

\* socketserver reports an exception that leaves a request handler and goes
\* on serving (serve_forever, line 254)
serve_forever(alive, out) == alive

Absent == "<absent>"

Field(k, v) == IF v = Absent THEN [x \in {} |-> 0] ELSE k :> v

AbsentId == [absent |-> TRUE]

IdField(v) == IF v = AbsentId THEN [x \in {} |-> 0] ELSE "id" :> v

\* request ids: absent, null, a string, a number
Ids == {AbsentId, None, [s |-> "req-1"], [n |-> 7]}

Nums == {-3, 0, 2}

\* the "parameters" objects: a and b each absent or a number
ParameterDicts == UNION {[S -> Nums] : S \in SUBSET {"a", "b"}}

\* the "params" objects of tools/execute; a JSON null tool_id reads like an
\* absent one (params.get("tool_id") is None for both)
ExecParams ==
    {Field("tool_id", t) @@ q :
        t \in {Absent, "", "calculator:add", "calculator:subtract",
               "calculator:multiply"},
        q \in {[x \in {} |-> 0]} \cup
              {"parameters" :> d : d \in ParameterDicts}}

ExecuteRequests ==
    {[jsonrpc |-> "2.0", method |-> "tools/execute", params |-> p,
      id |-> [s |-> "req-1"]] : p \in ExecParams}

EnvelopeRequests ==
    {Field("jsonrpc", j) @@ Field("method", m) @@ p @@ IdField(i) :
        j \in {Absent, "2.0", "1.0"},
        m \in {Absent, "", "initialize", "tools/list", "tools/execute",
               "resources/list"},
        p \in {[x \in {} |-> 0],
               "params" :> [tool_id |-> "calculator:multiply",
                            parameters |-> [a |-> 2, b |-> -3]]},
        i \in Ids}

\* what may arrive as the body of a POST
Bodies ==
    {[kind |-> "empty"], [kind |-> "invalid"],
     [kind |-> "json", object |-> FALSE]} \cup
    {[kind |-> "json", object |-> TRUE, value |-> r] :
        r \in ExecuteRequests \cup EnvelopeRequests}

\* what is remembered of an exchange once the next one is served: the kind of
\* its response and, for an error envelope, the code
Summary(resp) ==
    [kind |-> resp.kind,
     code |-> IF resp.kind = "json" /\ "error" \in DOMAIN resp.body
              THEN resp.body.error.code ELSE 0]

IsListRequest(body) ==
    /\ body.kind = "json"
    /\ body.object
    /\ do_POST_calls(server_tools, body.value) = <<"handle_list_tools">>

\* one inbound POST, from the bytes to the response
Serve(body) ==
    /\ running
    /\ IsListRequest(body) => Len(listings) < MaxLists
    /\ LET out == http_POST(server_tools, body) IN
       /\ http_request' = body
       /\ http_response' = out.response
       /\ invoked' = out.invoked
       /\ listings' = IF IsListRequest(body) /\ out.response.kind = "json"
                         /\ "result" \in DOMAIN out.response.body
                      THEN Append(listings, out.response.body.result)
                      ELSE listings
       /\ prior' = Summary(http_response)
       /\ running' = serve_forever(running, out)
    /\ UNCHANGED <<server_tools, agent_vars, ext_vars, conns>>

ServerNext == \E body \in Bodies : Serve(body)

ServerSpec == Init /\ [][ServerNext]_vars

(* ----------------------- independent connections ----------------------- *)

ExecuteBody(tool_id, parameters) ==
    [kind |-> "json", object |-> TRUE,
     value |-> [jsonrpc |-> "2.0", method |-> "tools/execute",
                params |-> [tool_id |-> tool_id, parameters |-> parameters],
                id |-> [s |-> "req-1"]]]

MethodBody(jsonrpc, method) ==
    [kind |-> "json", object |-> TRUE,
     value |-> [jsonrpc |-> jsonrpc, method |-> method, id |-> [n |-> 7]]]

\* the requests the clients send: every method, a success and every kind of
\* failure
ConnBodies ==
    {[kind |-> "empty"], [kind |-> "invalid"],
     [kind |-> "json", object |-> FALSE],
     MethodBody("2.0", "initialize"), MethodBody("2.0", "tools/list"),
     MethodBody("1.0", "tools/list"), MethodBody("2.0", "resources/list"),
     ExecuteBody("calculator:add", [a |-> 2, b |-> -3]),
     ExecuteBody("calculator:subtract", [a |-> 2, b |-> -3]),
     ExecuteBody("calculator:subtract", [a |-> 2]),
     ExecuteBody("calculator:multiply", [a |-> 2, b |-> -3])}

\* a client sends a request; it waits until the server accepts the connection
Connect(c, body) ==
    /\ conns[c].st = "idle"
    /\ conns' = [conns EXCEPT ![c] = [st |-> "pending", body |-> body]]
    /\ UNCHANGED <<server_tools, agent_vars, ext_vars, http_request,
                   http_response, invoked, listings, prior, running>>

\* mutant: the handler answers the request that arrived last
Handle_latest(c) ==
    /\ running
    /\ conns[c].st = "pending"
    /\ LET other == CHOOSE o \in Conns :
                       o = c \/ (o # c /\ conns[o].st = "pending")
           out == http_POST(server_tools, conns[other].body)
       IN  conns' = [conns EXCEPT ![c] = [st |-> "done", body |-> conns[c].body,
                                          response |-> out.response]]
    /\ UNCHANGED <<server_tools, agent_vars, ext_vars, http_request,
                   http_response, invoked, listings, prior, running>>

\* the server (an HTTPServer: one request at a time) accepts one of the
\* waiting connections and runs do_POST for it to the end
Handle(c) ==
    /\ running
    /\ conns[c].st = "pending"
    /\ LET out == http_POST(server_tools, conns[c].body)
       IN  conns' = [conns EXCEPT ![c] = [st |-> "done", body |-> conns[c].body,
                                          response |-> out.response]]
    /\ UNCHANGED <<server_tools, agent_vars, ext_vars, http_request,
                   http_response, invoked, listings, prior, running>>

\* the client has read the response and the connection is closed
Close(c) ==
    /\ conns[c].st = "done"
    /\ conns' = [conns EXCEPT ![c] = [st |-> "idle"]]
    /\ UNCHANGED <<server_tools, agent_vars, ext_vars, http_request,
                   http_response, invoked, listings, prior, running>>

ConnNext ==
    \/ \E c \in Conns, body \in ConnBodies : Connect(c, body)
    \/ \E c \in Conns : Handle(c)
    \/ \E c \in Conns : Close(c)

ConnSpec == Init /\ [][ConnNext]_vars

(* ---------------------- building the registry -------------------------- *)

ToolIds == {"calculator:add", "calculator:subtract", "calculator:multiply"}

Names == {"add", "subtract"}

Descriptions == {"Add two numbers together",
                 "Subtract the second number from the first"}

Handlers == {"add", "subtract"}

\* self.tools = {} of __init__, before the first registration
RegistryInit ==
    /\ server_tools = <<>>
    /\ tools = <<>>
    /\ messages = <<>>
    /\ pc = "idle"
    /\ stack = <<>>
    /\ cur = NoFrame
    /\ ret = [op |-> "__init__", kind |-> "return"]
    /\ trace = <<>>
    /\ turn = 0
    /\ nreq = 0
    /\ http_request = [kind |-> "none"]
    /\ http_response = [kind |-> "none"]
    /\ invoked = <<>>
    /\ listings = <<>>
    /\ prior = [kind |-> "none", code |-> 0]
    /\ running = TRUE
    /\ conns = [c \in Conns |-> [st |-> "idle"]]
    /\ sample = Text(<<>>)
    /\ extracted = [done |-> FALSE, call |-> <<>>]

\* one call of register_tool; it returns None whatever the registry holds
RegisterTool(tool_id, name, description, handler) ==
    /\ server_tools' = register_tool(server_tools, tool_id, name, description,
                                     handler)
    /\ UNCHANGED <<agent_vars, srv_vars, ext_vars>>

RegistryNext ==
    \E tool_id \in ToolIds, name \in Names, description \in Descriptions,
       handler \in Handlers :
        RegisterTool(tool_id, name, description, handler)

RegistrySpec == RegistryInit /\ [][RegistryNext]_vars

(* -------------------------- the extractor ------------------------------ *)

CallAdd == Call("add", [a |-> 5, b |-> 10])

CallSubtract == Call("subtract", [a |-> 15, b |-> 3])

\* the calls a text may carry: tool a string and parameters an object
WellFormedCalls == {CallAdd, CallSubtract}

\* the two ways of writing the members of a call
ToolFirst(c) ==
    Object(<<Pair("tool", c.tool), Pair("parameters", c.parameters)>>)

ParametersFirst(c) ==
    Object(<<Pair("parameters", c.parameters), Pair("tool", c.tool)>>)

TwoOrders(c) == {ToolFirst(c), ParametersFirst(c)}

\* a tool that is a number and parameters that are an array
CallIllTyped == Call("<int 5>", PyList(<<>>))

\* an object without the key parameters
OnlyTool == Object(<<Pair("tool", "add")>>)

\* a call with an opening brace inside a string of the parameters
StrayOpen == Json(Call("multiply", [text |-> "{"]))

\* ```json{...}``` written on one line
OneLine(body) == <<Ticks, JsonTag, Src(body), Ticks>>

\* the pieces a text is made of
Segments ==
    {Prose("Step a: I'll add 5 and 10"), <<NL>>, <<Ticks, JsonTag, NL>>,
     OneLine(Json(CallSubtract))}
        \cup {JsonFence(b) : b \in TwoOrders(CallAdd) \cup
                {OnlyTool, BadJson(CallAdd), Json(CallIllTyped)}}
        \cup {Fence(b) : b \in {Json(CallSubtract), OnlyTool}}
        \cup {Inline(b) : b \in {Json(CallSubtract), ParametersFirst(CallAdd),
                                 StrayOpen, BadJson(CallAdd),
                                 Json(CallIllTyped)}}

ExtractTexts ==
    {Text(segs) : segs \in UNION {[1..n -> Segments] : n \in 0..MaxSegs}}

ExtractInit ==
    /\ sample \in ExtractTexts
    /\ extracted = [done |-> FALSE, call |-> <<>>]
    /\ conns = [c \in Conns |-> [st |-> "idle"]]
    /\ server_tools = MCPCalculatorServer
    /\ tools = <<>>
    /\ messages = <<>>
    /\ pc = "idle"
    /\ stack = <<>>
    /\ cur = NoFrame
    /\ ret = [op |-> "__init__", kind |-> "return"]
    /\ trace = <<>>
    /\ turn = 0
    /\ nreq = 0
    /\ http_request = [kind |-> "none"]
    /\ http_response = [kind |-> "none"]
    /\ invoked = <<>>
    /\ listings = <<>>
    /\ prior = [kind |-> "none", code |-> 0]
    /\ running = TRUE

\* one call of _parse_tool_call
Parse ==
    /\ ~extracted.done
    /\ extracted' = [done |-> TRUE, call |-> parse_tool_call(sample)]
    /\ UNCHANGED <<sample, server_tools, agent_vars, srv_vars>>

ExtractNext == Parse

ExtractSpec == ExtractInit /\ [][ExtractNext]_vars

(* ------------------------ reading the trace ---------------------------- *)

Last(s) == s[Len(s)]

\* the events of the current turn after event i
After(i) == SubSeq(trace, i + 1, Len(trace))

EvKinds(tr) == [k \in 1..Len(tr) |-> tr[k].ev]

Count(tr, kinds) == Cardinality({k \in 1..Len(tr) : tr[k].ev \in kinds})

Returned_ == pc = "idle" /\ ret.op = "process_user_input" /\ ret.kind = "return"

Faulted == pc = "idle" /\ ret.op = "process_user_input" /\ ret.kind = "fault"

\* the error a system message of the history reports, if it reports one
ReportsError(m, e) ==
    m.role = "system" /\ "error" \in DOMAIN m.content /\ m.content.error = e

(* ------------------------------ claims --------------------------------- *)

\* C1: a fault of a completion request, at any point of a turn, ends the turn
\* with a fault to the caller: the failed request is the last event of the
\* turn (no further completion request follows it) and no system message
\* about the fault is in the history.
C1_CompletionFaultSurfaces ==
    /\ \A i \in 1..Len(trace) :
          trace[i].ev = "llm_fault" => i = Len(trace) /\ Faulted
    /\ \A k \in 1..Len(messages) : ~ReportsError(messages[k], LLMError)

\* C2: a tools/execute RPC that gets no answer (network failure, timeout) ends
\* the turn with a fault to the caller: no further request follows it and no
\* system message about it is in the history.
C2_ExecTransportFaultSurfaces ==
    /\ \A i \in 1..Len(trace) :
          trace[i].ev = "exec_fault" => i = Len(trace) /\ Faulted
    /\ \A k \in 1..Len(messages) : ~ReportsError(messages[k], TransportError)

\* C3: once a tool name is found unknown, the rest of the turn is exactly one
\* completion request and its outcome: no parse, no tools/execute, no second
\* completion request; the history then ends with the raw call, the system
\* message naming the tool and listing the valid names and, once the turn has
\* returned, the completion's text, which is the value returned.
C3_UnknownToolSingleShot ==
    \A i \in 1..Len(trace) :
       trace[i].ev = "unknown" =>
          /\ \/ EvKinds(After(i)) = <<"completion">> /\ pc = "final"
             \/ EvKinds(After(i)) = <<"completion", "response">> /\ Returned_
             \/ EvKinds(After(i)) = <<"completion", "llm_fault">> /\ Faulted
          /\ LET n == Len(trace[i + 1].payload) IN
             /\ messages[n - 1] = assistant_message(trace[i - 1].text)
             /\ messages[n] = unknown_tool_message(trace[i].tool_name, tools)
             /\ trace[i + 1].payload = SubSeq(messages, 1, n)
             /\ Returned_ =>
                   /\ ret.text = Last(trace).text
                   /\ messages = Append(trace[i + 1].payload,
                                        assistant_message(ret.text))

\* C4: once the tools/execute RPC has returned an error Response, at any depth,
\* the rest of the turn is exactly one completion request and its outcome: one
\* system message describing the fault, no parse, no further tools/execute, no
\* second completion request, and the completion's text is what the turn returns.
C4_ExecErrorSingleShot ==
    \A i \in 1..Len(trace) :
       trace[i].ev = "exec_error" =>
          /\ \/ EvKinds(After(i)) = <<"caught", "completion">> /\ pc = "final"
             \/ EvKinds(After(i)) = <<"caught", "completion", "response">>
                  /\ Returned_
             \/ EvKinds(After(i)) = <<"caught", "completion", "llm_fault">>
                  /\ Faulted
          /\ LET n == Len(trace[i + 2].payload) IN
             /\ messages[n].role = "system"
             /\ messages[n].content.tool_name = trace[i + 1].tool_name
             /\ trace[i + 2].payload = SubSeq(messages, 1, n)
             /\ Returned_ =>
                   /\ ret.text = Last(trace).text
                   /\ messages = Append(trace[i + 2].payload,
                                        assistant_message(ret.text))

\* C5: a successful tools/execute is followed by one system message
\* "Tool result: <value>" and a new completion request over the extended
\* history; the text of that completion is parsed again, and a resolvable call
\* in it is executed in the same turn.
C5_SuccessRecurses ==
    \A i \in 1..Len(trace) :
       trace[i].ev = "exec_ok" =>
          /\ trace[i + 1].ev = "completion"
          /\ trace[i + 1].payload =
                trace[i - 4].payload \o
                   <<Message("assistant", trace[i - 3].text),
                     Message("system", [fmt |-> "Tool result: ",
                                        result |-> trace[i].result])>>
          /\ (Len(trace) >= i + 2 /\ trace[i + 2].ev = "response") =>
                /\ Len(trace) >= i + 3
                /\ trace[i + 3].ev = "parse"
                /\ trace[i + 3].text = trace[i + 2].text
                /\ LET c == parse_tool_call(trace[i + 2].text) IN
                   (c # <<>> /\ \E k \in 1..Len(tools) : tools[k].name = c[1].tool)
                   => /\ Len(trace) >= i + 4
                      /\ trace[i + 4].ev = "execute"
                      /\ \E k \in 1..Len(tools) :
                            /\ tools[k].name = c[1].tool
                            /\ trace[i + 4].request.params =
                                  [tool_id |-> tools[k].id,
                                   parameters |-> c[1].parameters]

\* two tool calls executed in one turn, the second found in the completion
\* that followed the first result
C5_Witness ==
    \E i \in 1..Len(trace) :
       /\ trace[i].ev = "exec_ok"
       /\ Len(trace) >= i + 5
       /\ trace[i + 5].ev = "exec_ok"

NoTransportFault == Count(trace, {"llm_fault", "exec_fault"}) = 0

\* C6: in a turn in which every request is answered, the turn goes on only
\* while every completion so far was a successfully executed call; an unknown
\* tool or an execution error is followed by exactly one completion request,
\* whose answer ends the turn, and a completion without a call ends it at once.
C6_OnlySuccessContinues ==
    NoTransportFault =>
       /\ Count(trace, {"completion"}) <= Count(trace, {"exec_ok"}) + 2
       /\ pc = "llm" =>
             /\ Count(trace, {"response"}) = Count(trace, {"exec_ok"})
             /\ Count(trace, {"completion"}) = Count(trace, {"exec_ok"}) + 1
       /\ pc = "exec" =>
             Count(trace, {"response"}) = Count(trace, {"exec_ok"}) + 1
       /\ \A i \in 1..Len(trace) :
             /\ trace[i].ev \in {"unknown", "exec_error"} =>
                   /\ Count(After(i), {"completion"}) = 1
                   /\ Count(After(i), {"execute", "parse"}) = 0
                   /\ pc = "final" \/ Returned_
                   /\ Count(After(i), {"response"}) = 1 => Returned_
             /\ (trace[i].ev = "parse" /\ ~trace[i].found) =>
                   i = Len(trace) /\ Returned_

\* a turn that returned after two successful calls and one failing call
C6_Witness ==
    /\ Returned_
    /\ NoTransportFault
    /\ Count(trace, {"exec_ok"}) >= 2
    /\ Count(trace, {"unknown", "exec_error"}) = 1

\* C7 (as stated): after every operation the history before it is a prefix of
\* the history after it.
C7_AppendOnly == [][IsPrefix(messages, messages')]_vars

\* C7 (amended): every step of process_user_input extends the history; a
\* successful discover_tools replaces it by the single system prompt message,
\* a faulting discover_tools leaves it unchanged.
C7_AppendOnlyWithinTurns ==
    [][IF ret'.op = "discover_tools"
       THEN IF ret'.kind = "return"
            THEN messages' = <<Message("system", system_prompt(tools'))>>
            ELSE messages' = messages
       ELSE IsPrefix(messages, messages')]_vars

\* discover_tools has returned after a turn had appended messages
C7_Witness ==
    /\ ret.op = "discover_tools"
    /\ ret.kind = "return"
    /\ turn > 0
    /\ Len(messages) = 1

\* C8: a completion without a call is the last event of the turn: exactly one
\* message is appended, the assistant message holding the raw text, and that
\* text is returned; no tools/execute and no further completion request.
C8_NoCallTerminal ==
    \A i \in 1..Len(trace) :
       (trace[i].ev = "parse" /\ ~trace[i].found) =>
          /\ i = Len(trace)
          /\ trace[i - 1].ev = "response"
          /\ Returned_
          /\ ret.text = trace[i - 1].text
          /\ messages = Append(trace[i - 2].payload,
                               Message("assistant", trace[i - 1].text))

\* a turn that ended by a completion without a call after a tool call
C8_Witness ==
    /\ Returned_
    /\ Count(trace, {"exec_ok"}) >= 1
    /\ Last(trace).ev = "parse"
    /\ ~Last(trace).found

\* C9: the raw text of a completion in which a call was found is the message
\* appended right after the history the completion was requested over, before
\* any system message of resolution or execution, and every later completion
\* request of the turn carries it at that position.
C9_RawCallKept ==
    \A i \in 1..Len(trace) :
       (trace[i].ev = "parse" /\ trace[i].found) =>
          LET at == trace[i].at
              raw == Message("assistant", trace[i - 1].text)
          IN  /\ Len(messages) > at
              /\ messages[at + 1] = raw
              /\ Len(messages) > at + 1 => messages[at + 2].role = "system"
              /\ pc = "exec" /\ i = Len(trace) - 1 => Len(messages) = at + 1
              /\ \A j \in (i + 1)..Len(trace) :
                    trace[j].ev = "completion" =>
                       /\ Len(trace[j].payload) > at + 1
                       /\ trace[j].payload[at + 1] = raw

\* a later completion request of the turn exists for each outcome of the call
C9_Witness ==
    /\ Count(trace, {"exec_ok"}) >= 1
    /\ Count(trace, {"unknown"}) = 1
    /\ Count(trace, {"completion"}) >= 3

\* the turn returned and every completion but the last was a call that
\* executed successfully
ChainReturned ==
    /\ Returned_
    /\ Count(trace, {"llm_fault", "exec_fault", "exec_error",
                     "unknown", "caught"}) = 0

\* C10: n successful calls and then a completion without a call: n+1
\* completion requests and n tools/execute RPCs, alternating; the history gains
\* user, n pairs (assistant raw text, system tool result), final assistant;
\* "What is 5+10-3?" answered by add {5,10} and subtract {15,3} gives 15, 12.
C10_ChainedCalls ==
    ChainReturned =>
       LET n == Count(trace, {"exec_ok"})
           reqs == SelectSeq(trace, LAMBDA e : e.ev \in {"completion", "execute"})
           texts == SelectSeq(trace, LAMBDA e : e.ev = "response")
           results == SelectSeq(trace, LAMBDA e : e.ev = "exec_ok")
           start == Len(trace[1].payload)
       IN  /\ Len(reqs) = 2 * n + 1
           /\ \A k \in 1..Len(reqs) :
                 reqs[k].ev = IF k % 2 = 1 THEN "completion" ELSE "execute"
           /\ Len(texts) = n + 1
           /\ Len(messages) = start + 2 * n + 1
           /\ messages[start].role = "user"
           /\ \A k \in 1..n :
                 /\ messages[start + 2 * k - 1] =
                       Message("assistant", texts[k].text)
                 /\ messages[start + 2 * k] =
                       Message("system", [fmt |-> "Tool result: ",
                                          result |-> results[k].result])
           /\ messages[start + 2 * n + 1] = Message("assistant", texts[n + 1].text)
           /\ ret.text = texts[n + 1].text
           /\ (n = 2 /\ texts[1].text = TextAdd /\ texts[2].text = TextSubtract) =>
                 /\ reqs[2].request.params =
                       [tool_id |-> "calculator:add",
                        parameters |-> [a |-> 5, b |-> 10]]
                 /\ results[1].result = 15
                 /\ reqs[4].request.params =
                       [tool_id |-> "calculator:subtract",
                        parameters |-> [a |-> 15, b |-> 3]]
                 /\ results[2].result = 12

\* the turn of "What is 5+10-3?": add, subtract, final answer
C10_Witness ==
    /\ ChainReturned
    /\ Count(trace, {"exec_ok"}) = 2
    /\ trace[2].text = TextAdd
    /\ trace[7].text = TextSubtract
    /\ ret.text = TextFinal

(* ------------------------ reading the exchange ------------------------- *)

IsObject == http_request.kind = "json" /\ http_request.object

Obj == http_request.value

ValidEnvelope ==
    /\ IsObject
    /\ "jsonrpc" \in DOMAIN Obj /\ Obj["jsonrpc"] = "2.0"
    /\ "method" \in DOMAIN Obj /\ Obj["method"] # ""

IsExecute == ValidEnvelope /\ Obj["method"] = "tools/execute"

ReqParams == Get(Obj, "params", [x \in {} |-> 0])

ToolId == Get(ReqParams, "tool_id", Absent)

Parameters == Get(ReqParams, "parameters", [x \in {} |-> 0])

HasBoth == {"a", "b"} \subseteq DOMAIN Parameters

IsResult ==
    /\ http_response.kind = "json"
    /\ "result" \in DOMAIN http_response.body
    /\ "error" \notin DOMAIN http_response.body

IsError(code) ==
    /\ http_response.kind = "json"
    /\ "error" \in DOMAIN http_response.body
    /\ "result" \notin DOMAIN http_response.body
    /\ http_response.body.error.code = code

\* the error is the handler fault `detail` under the code -32603
IsHandlerFault(msg, arg) ==
    /\ IsError(-32603)
    /\ http_response.body.error.message =
          [msg |-> "Internal error: ", detail |-> [msg |-> msg, arg |-> arg]]

(* ------------------------------ the server ----------------------------- *)

\* C11: tools/execute of calculator:add with numbers a and b answers with the
\* result a + b, and of calculator:subtract with a - b, for every pair of
\* Nums; serving the request leaves the registry as it was.
C11_Arithmetic ==
    [][ /\ (IsExecute /\ ToolId = "calculator:add" /\ HasBoth)'
            => (IsResult /\ http_response.body.result
                              = Parameters["a"] + Parameters["b"])'
        /\ (IsExecute /\ ToolId = "calculator:subtract" /\ HasBoth)'
            => (IsResult /\ http_response.body.result
                              = Parameters["a"] - Parameters["b"])'
        /\ server_tools' = server_tools ]_vars

C11_Witness ==
    /\ IsExecute /\ ToolId = "calculator:add"
    /\ HasBoth /\ Parameters["a"] = 2 /\ Parameters["b"] = -3
    /\ IsResult /\ http_response.body.result = -1
    /\ server_tools = MCPCalculatorServer

\* C12 as stated: tools/execute answers with the fault "Unknown tool" for every
\* tool_id that is not registered, an absent, null or empty tool_id included,
\* and calls no tool handler.
C12_UnknownToolFault ==
    (IsExecute /\ ToolId \notin RegistryIds(server_tools))
        => /\ IsHandlerFault("Unknown tool: ", IF ToolId = Absent THEN "" ELSE ToolId)
           /\ invoked = <<"handle_execute_tool">>

\* C12, amended: a tool_id that is present, not empty and not registered gets
\* the fault "Unknown tool: {tool_id}"; an absent, null or empty tool_id gets
\* the fault "Missing required parameter: tool_id"; no tool handler is called
\* in either case.
C12_UnknownOrMissingToolId ==
    (IsExecute /\ ToolId \notin RegistryIds(server_tools))
        => /\ IF ToolId \in {Absent, ""}
              THEN IsHandlerFault("Missing required parameter: tool_id", "")
              ELSE IsHandlerFault("Unknown tool: ", ToolId)
           /\ invoked = <<"handle_execute_tool">>

C12_Witness ==
    /\ IsExecute /\ ToolId = ""
    /\ IsHandlerFault("Missing required parameter: tool_id", "")
    /\ prior = [kind |-> "json", code |-> -32603]

\* C13: tools/execute of a registered tool whose parameters lack a, lack b,
\* lack both or are missing altogether answers with the fault "Missing
\* required parameters: 'a' and 'b'" raised by the tool's handler, and carries
\* no result.
C13_MissingParameter ==
    (IsExecute /\ ToolId \in RegistryIds(server_tools) /\ ~HasBoth)
        => /\ IsHandlerFault("Missing required parameters: 'a' and 'b'", "")
           /\ ~IsResult
           /\ invoked = <<"handle_execute_tool",
                          RegistryTool(server_tools, ToolId).handler>>

C13_Witness ==
    /\ IsExecute /\ ToolId = "calculator:subtract"
    /\ DOMAIN Parameters = {"a"}
    /\ "parameters" \in DOMAIN ReqParams
    /\ IsHandlerFault("Missing required parameters: 'a' and 'b'", "")

IsList == ValidEnvelope /\ Obj["method"] = "tools/list"

\* C14: every tools/list result holds exactly one descriptor per registered
\* tool, in the order of registration (calculator:add, calculator:subtract),
\* and every tools/list result of a run is the same sequence, whatever was
\* served in between.
C14_ListStable ==
    /\ \A k \in 1..Len(listings) :
          /\ Len(listings[k]) = Len(server_tools)
          /\ \A i \in 1..Len(server_tools) :
                listings[k][i] = to_dict(server_tools[i])
          /\ [i \in 1..Len(listings[k]) |-> listings[k][i].id]
                = <<"calculator:add", "calculator:subtract">>
          /\ listings[k] = listings[1]
    /\ IsList => /\ IsResult
                 /\ listings # <<>>
                 /\ http_response.body.result = listings[Len(listings)]

C14_Witness ==
    /\ IsList
    /\ Len(listings) = 2
    /\ prior = [kind |-> "json", code |-> -32603]

\* C15 as stated: registering an id that the registry already holds leaves the
\* registry as it was: no registered tool is ever replaced.
C15_NeverReplaced ==
    [][\A i \in 1..Len(server_tools) :
          /\ i <= Len(server_tools')
          /\ server_tools'[i] = server_tools[i]]_vars

\* C16: an envelope whose jsonrpc is not "2.0" or whose method is absent or
\* empty is answered with the error -32600 "Invalid Request" and no handler is
\* called, whatever the method and the params are.
C16_InvalidRequest ==
    (IsObject /\ ~ValidEnvelope)
        => /\ IsError(-32600)
           /\ http_response.body.error.message = [msg |-> "Invalid Request"]
           /\ invoked = <<>>

C16_Witness ==
    /\ IsObject
    /\ "jsonrpc" \in DOMAIN Obj /\ Obj["jsonrpc"] = "1.0"
    /\ "method" \in DOMAIN Obj /\ Obj["method"] = "tools/execute"
    /\ ToolId = "calculator:multiply"
    /\ IsError(-32600)

KnownMethods == {"initialize", "tools/list", "tools/execute"}

\* C17: a valid envelope whose method is not initialize, tools/list or
\* tools/execute is answered with the error -32601 "Method not found:
\* {method}" and no handler is called.
C17_MethodNotFound ==
    (ValidEnvelope /\ Obj["method"] \notin KnownMethods)
        => /\ IsError(-32601)
           /\ http_response.body.error.message =
                 [msg |-> "Method not found: ", method |-> Obj["method"]]
           /\ invoked = <<>>

C17_Witness ==
    /\ ValidEnvelope /\ Obj["method"] = "resources/list"
    /\ IsError(-32601)

\* the faults the handlers raise, as str(e)
HandlerFaults ==
    {[msg |-> "Missing required parameter: tool_id", arg |-> ""],
     [msg |-> "Missing required parameters: 'a' and 'b'", arg |-> ""]} \cup
    {[msg |-> "Unknown tool: ", arg |-> t] : t \in ToolIds}

\* C18: every request that reaches a handler is answered with an envelope; when
\* the handler faults (unknown tool, missing tool_id, missing parameter) the
\* envelope is the error -32603 "Internal error: {detail}" with the fault as
\* detail; and the service is serving after it.
C18_HandlerFaultConverted ==
    /\ running
    /\ (IsObject /\ invoked # <<>>) => http_response.kind = "json"
    /\ (IsExecute /\ (ToolId \notin RegistryIds(server_tools) \/ ~HasBoth))
          => /\ IsError(-32603)
             /\ http_response.body.error.message.msg = "Internal error: "
             /\ http_response.body.error.message.detail \in HandlerFaults
    /\ (prior.code = -32603 /\ IsObject) => http_response.kind = "json"

C18_Witness ==
    /\ prior = [kind |-> "json", code |-> -32603]
    /\ IsExecute /\ ToolId = "calculator:multiply"
    /\ IsHandlerFault("Unknown tool: ", "calculator:multiply")
    /\ running

\* C19 as stated, for the bodies that parse as JSON: the request is answered
\* with one envelope, which carries either result or error and the id of the
\* request (null when the request has none).
C19_OneEnvelope ==
    http_request.kind = "json"
        => /\ http_response.kind = "json"
           /\ IsResult \/ (\E code \in {-32600, -32601, -32603} : IsError(code))
           /\ http_response.body.id =
                 (IF http_request.object THEN Get(Obj, "id", None) ELSE None)

IsMalformed == http_request.kind \in {"empty", "invalid"}

TickFree == {g \in Segments : \A i \in 1..Len(g) : g[i] # Ticks}

Around == {<<>>} \cup TickFree

Candidates(k) ==
    IF k = 1 THEN BodiesOf(sample.toks, <<Ticks, JsonTag, NL>>)
    ELSE IF k = 2 THEN BodiesOf(sample.toks, <<Ticks, NL>>)
    ELSE IF k = 3 THEN WholeText(sample.toks)
    ELSE IF k = 4 THEN Balanced(sample.toks)
    ELSE Simple(sample.toks)

\* candidate i of strategy k parses and has both keys
ValidAt(k, i) ==
    /\ i \in 1..Len(Candidates(k))
    /\ loads(Candidates(k)[i]).ok
    /\ HasRequiredKeys(loads(Candidates(k)[i]).value)

HasValid(k) == \E i \in 1..Len(Candidates(k)) : ValidAt(k, i)

\* strategy k is the first one with a valid candidate
Decides(k) == HasValid(k) /\ \A j \in 1..(k - 1) : ~HasValid(j)

\* C22: the result is a valid candidate of the first strategy, in the order
\* json block, untagged block, whole text, balanced braces, simple pattern,
\* that has one: a call in a json block wins over a call in an untagged block
\* that stands before it, and a call the balanced-brace pattern finds wins over
\* an earlier call that only the simple pattern finds.  With no valid
\* candidate in any strategy the result is None, and no exception is raised.
C22_StrategyOrder ==
    extracted.done =>
        /\ \A k \in 1..5 :
              Decides(k) =>
                 \E i \in 1..Len(Candidates(k)) :
                    /\ ValidAt(k, i)
                    /\ extracted.call = <<loads(Candidates(k)[i]).value>>
        /\ (\A k \in 1..5 : ~HasValid(k)) => extracted.call = <<>>
        /\ sample = Text(<<Fence(Json(CallSubtract)),
                           JsonFence(ToolFirst(CallAdd))>>)
              => extracted.call = <<CallAdd>>
        /\ sample = Text(<<Inline(StrayOpen), Inline(Json(CallSubtract))>>)
              => extracted.call = <<CallSubtract>>

C22_Witness ==
    /\ extracted.done
    /\ sample = Text(<<Fence(Json(CallSubtract)), JsonFence(ToolFirst(CallAdd)),
                       Inline(StrayOpen)>>)
    /\ Decides(1) /\ HasValid(2) /\ HasValid(4) /\ HasValid(5)
    /\ extracted.call = <<CallAdd>>

\* C23: in the strategy that decides, the candidates before the first valid
\* one (they fail to parse, or parse without the key tool or the key
\* parameters) are skipped and the first valid one, in reading order, is the
\* result.
C23_ReadingOrder ==
    extracted.done =>
        /\ \A k \in 1..5 :
              Decides(k) =>
                 \A i \in 1..Len(Candidates(k)) :
                    (ValidAt(k, i) /\ \A h \in 1..(i - 1) : ~ValidAt(k, h))
                        => extracted.call = <<loads(Candidates(k)[i]).value>>
        /\ sample = Text(<<JsonFence(BadJson(CallAdd)), JsonFence(OnlyTool),
                           JsonFence(ParametersFirst(CallAdd))>>)
              => extracted.call = <<CallAdd>>

C23_Witness ==
    /\ extracted.done
    /\ sample = Text(<<JsonFence(BadJson(CallAdd)), JsonFence(OnlyTool),
                       JsonFence(ParametersFirst(CallAdd))>>)
    /\ Decides(1) /\ ~ValidAt(1, 1) /\ ~ValidAt(1, 2) /\ ValidAt(1, 3)
    /\ extracted.call = <<CallAdd>>

\* C24 as stated: every call the extractor returns has a tool that is a
\* string and parameters that are an object.
C24_CallShape ==
    (extracted.done /\ extracted.call # <<>>)
        => /\ isinstance_str(extracted.call[1]["tool"])
           /\ isinstance_dict(extracted.call[1]["parameters"])

(* ------------------------- independent connections --------------------- *)

\* the response a request gets when it is the only one the server ever serves
ServedAlone(body) == http_POST(MCPCalculatorServer, body).response

\* C25: whatever requests the clients send and in whatever order the server
\* takes them, the registry stays the one built at start-up, and each response
\* is the one its request gets when served alone: add of 2 and -3 is answered
\* with -1 whatever the other client has sent or been answered.
C25_StatelessRequests ==
    /\ server_tools = MCPCalculatorServer
    /\ \A c \in Conns :
          conns[c].st = "done" =>
             /\ conns[c].response = ServedAlone(conns[c].body)
             /\ conns[c].body = ExecuteBody("calculator:add", [a |-> 2, b |-> -3])
                   => /\ conns[c].response.kind = "json"
                      /\ "result" \in DOMAIN conns[c].response.body
                      /\ conns[c].response.body.result = -1

C25_Witness ==
    /\ conns[1].st = "done"
    /\ conns[1].body = ExecuteBody("calculator:add", [a |-> 2, b |-> -3])
    /\ conns[1].response.body.result = -1
    /\ conns[2].st = "pending"
    /\ conns[2].body = ExecuteBody("calculator:multiply", [a |-> 2, b |-> -3])

(* ------------------------------ the history ---------------------------- *)

\* the index of the user message of the turn in progress or last finished
TurnStart == Len(trace[1].payload)

\* C26: when process_user_input has returned, by the path without a call, the
\* unknown-tool path or the execution-error path, the last message of the
\* history is the assistant message holding the returned text, the turn's
\* first message is the user's, and every message of the turn has the role
\* user, assistant or system.
C26_ReturnedTextIsLast ==
    Returned_ =>
        /\ Last(messages) = Message("assistant", ret.text)
        /\ messages[TurnStart].role = "user"
        /\ \A k \in TurnStart..Len(messages) :
              messages[k].role \in {"user", "assistant", "system"}

C26_Witness ==
    /\ Returned_
    /\ Count(trace, {"exec_ok"}) > 0
    /\ Count(trace, {"caught"}) > 0
    /\ Last(messages) = Message("assistant", ret.text)
    /\ messages[Len(messages) - 1].role = "system"

\* C27: a turn that ends with a fault to the caller leaves in the history the
\* user message and every assistant and system message it appended (one per
\* completion answered, one per tool result or error recorded), and the turn
\* that follows it sends all of them, followed by its own user message, in its
\* first completion request.
C27_FaultKeepsHistory ==
    [][ /\ (ret'.op = "process_user_input" /\ ret'.kind = "fault")
            => /\ IsPrefix(messages, messages')
               /\ SubSeq(messages', 1, Len(trace'[1].payload))
                     = trace'[1].payload
               /\ messages'[Len(trace'[1].payload)].role = "user"
               /\ Len(messages') = Len(trace'[1].payload)
                     + Count(trace', {"response"})
                     + Count(trace', {"exec_ok", "unknown", "caught"})
        /\ (Faulted /\ pc' = "llm")
            => /\ Len(trace') = 1
               /\ trace'[1].ev = "completion"
               /\ IsPrefix(messages, trace'[1].payload)
               /\ Len(trace'[1].payload) = Len(messages) + 1
               /\ Last(trace'[1].payload).role = "user"
               /\ trace'[1].payload[TurnStart].role = "user"
               /\ TurnStart < Len(trace'[1].payload) ]_vars

\* the second turn has sent its first request after the first turn faulted
\* at once: the history ends with two user messages
C27_Witness ==
    /\ turn = 2
    /\ pc = "llm"
    /\ Len(trace) = 1
    /\ TurnStart >= 2
    /\ trace[1].payload[TurnStart].role = "user"
    /\ trace[1].payload[TurnStart - 1].role = "user"

====
